---------------------------- MODULE Spec2Model ----------------------------
(***************************************************************************)
(* Backgammon game analyzer: the game-state logging endpoint               *)
(* (php/save_move.php, the gameState version), the detector                *)
(* (CheckerDetector: detect, its detections, detectBoardRegions) and the   *)
(* page that drives them (app.js: Start, Stop, the camera, the timer).     *)
(*                                                                         *)
(* Conventions.                                                            *)
(*  - An optional JSON member is a sequence of length 0 (absent or null:   *)
(*    PHP's isset() is false for both) or 1 (present).                     *)
(*  - A submitted number is an integer count of tenths: 1204 is 120.4.     *)
(*  - The log file is a sequence of tokens.  A token is one literal piece  *)
(*    or one interpolated value of the PHP strings that make a log entry,  *)
(*    so a short write(2) can end inside a line.                           *)
(***************************************************************************)
EXTENDS Integers, Sequences, FiniteSets, TLC

VARIABLES
    pc,          \* per request: where the script is
    request,     \* per request: the HTTP method and the decoded body
    timestamp,   \* per request: $timestamp = date('Y-m-d H:i:s')
    logEntries,  \* per request: $logEntries, a sequence of entries (token sequences)
    written,     \* per request: tokens of implode('', $logEntries) written so far
    reply,       \* per request: the HTTP status and the JSON answer
    log,         \* moves.txt: the tokens in file order
    writer,      \* history: for each token of log, the request that wrote it
    lockHolder,  \* the request holding flock(LOCK_EX) on moves.txt, 0 when free
    clock,       \* the server's clock, in seconds
    canvas,      \* the detector's canvas: its width and height in pixels
    boardRegions,\* what detectBoardRegions returned last, <<>> before its first call
    initialized, \* CheckerDetector.initialized
    readyState,  \* video.readyState
    frame,       \* what the camera shows: what the vision library finds in the video
    currentGameState, \* CheckerDetector.currentGameState
    returned,    \* history: what the last call of a method of the detector returned, if any
    outcome,     \* history: how the last call of a method of the detector ended
    now,         \* the browser's clock
    isDetecting, \* app.js: isDetecting
    detectionInterval, \* app.js: detectionInterval, the timer's id, 0 for null
    srcObject,   \* videoElement.srcObject, the stream's id, 0 for null
    disabled,    \* startBtn.disabled and stopBtn.disabled
    starts,      \* per call of startDetection: where it is
    listeners,   \* the loadedmetadata listeners registered on the video, in order
    timers,      \* the ids of the timers setInterval created and nothing cleared
    live,        \* the streams whose camera track has not been stopped
    loading,     \* the video element is loading the metadata of its srcObject
    detectionCount, \* the number shown in detectionCountElement
    outbox,      \* the POSTs fetch() has sent and the server has not received yet
    stopped,     \* history: stopDetection has run and Start was not clicked since
    shown        \* history, per request: the page showed its state's cube as detected

serverVars == <<pc, request, timestamp, logEntries, written, reply, log, writer,
                lockHolder, clock>>

detectorVars == <<canvas, boardRegions>>

classVars == <<initialized, readyState, frame, currentGameState, returned, outcome, now>>

appVars == <<isDetecting, detectionInterval, srcObject, disabled, starts, listeners, timers,
             live, loading, detectionCount, outbox, stopped, shown>>

clientVars == <<detectorVars, classVars, appVars>>

vars == <<serverVars, clientVars>>

---------------------------------------------------------------------------
(* Bounds *)

NumRequests == 2
MaxClock == 1
MaxWidth == 12
MaxHeight == 3
MaxNow == 1
MaxStarts == 2
MaxPosts == 2
MaxContours == 2

Requests == 1..NumRequests

---------------------------------------------------------------------------
(* JSON values *)

None == <<>>
Some(v) == <<v>>
isset(opt) == opt # <<>>
Get(opt) == opt[1]

\* PHP's ?? operator
Coalesce(opt, default) == IF isset(opt) THEN Get(opt) ELSE default

RECURSIVE Flatten(_)
\* implode('', $logEntries)
Flatten(ss) == IF ss = <<>> THEN <<>> ELSE Head(ss) \o Flatten(Tail(ss))

---------------------------------------------------------------------------
(* PHP numbers *)

\* (mutant) truncation toward zero, as (int) $num would do
roundTruncating(v) ==
    IF v >= 0 THEN [neg |-> FALSE, mag |-> v \div 10]
              ELSE [neg |-> TRUE,  mag |-> (-v) \div 10]

\* round($num): half away from zero, the result a float (so -0.4 gives -0.0).
\* v is in tenths; the result is [neg, mag] for the float -mag or +mag.
round(v) ==
    IF v >= 0 THEN [neg |-> FALSE, mag |-> (v + 5) \div 10]
              ELSE [neg |-> TRUE,  mag |-> ((-v) + 5) \div 10]

\* A float interpolated into a string: "120", "-3", and "-0" for -0.0.
FloatToString(f) == IF f.neg THEN "-" \o ToString(f.mag) ELSE ToString(f.mag)

\* isset($checker['x']) ? round($checker['x']) : 0
RoundOrZero(opt) == IF isset(opt) THEN FloatToString(round(Get(opt))) ELSE "0"

\* round($die['x']) with the member possibly missing: null is taken as 0
RoundNullable(opt) == FloatToString(round(Coalesce(opt, 0)))

\* (mutant) "{$pips}" without the ?? '?': null is interpolated as nothing
ValueOrNothing(opt) == IF isset(opt) THEN ToString(Get(opt)) ELSE ""

\* $pips ?? '?', $value ?? '?'
ValueOrPlaceholder(opt) == IF isset(opt) THEN ToString(Get(opt)) ELSE "?"

\* date('Y-m-d H:i:s') at second c of the server's clock
date(c) == "2025-10-26 15:22:4" \o ToString(c)


---------------------------------------------------------------------------
(* JavaScript numbers: IEEE 754 binary64 with round-to-nearest-even.       *)
(* A natural number of any size is its sequence of digits to the base      *)
(* 2^14, least significant first, without leading zeros.  A positive       *)
(* number is [m, e] for m * 2^e with m of exactly Precision bits; zero is  *)
(* [<<>>, 0].  Every value computed below lies far inside the normal       *)
(* range, so the exponent has no bounds here.                              *)

\* the significand's width
Precision == 53

DigitBits == 14
Base == 2 ^ DigitBits

RECURSIVE Digits(_)
\* the integer n >= 0
Digits(n) == IF n = 0 THEN <<>> ELSE <<n % Base>> \o Digits(n \div Base)

RECURSIVE Trim(_)
Trim(a) ==
    IF a = <<>> THEN <<>>
    ELSE IF a[Len(a)] = 0 THEN Trim(SubSeq(a, 1, Len(a) - 1)) ELSE a

RECURSIVE AddDigits(_, _, _)
AddDigits(a, b, carry) ==
    IF a = <<>> /\ b = <<>>
    THEN IF carry = 0 THEN <<>> ELSE <<carry>>
    ELSE LET x == IF a = <<>> THEN 0 ELSE Head(a)
             y == IF b = <<>> THEN 0 ELSE Head(b)
             s == x + y + carry
         IN  <<s % Base>> \o AddDigits(IF a = <<>> THEN <<>> ELSE Tail(a),
                                       IF b = <<>> THEN <<>> ELSE Tail(b),
                                       s \div Base)

Plus(a, b) == AddDigits(a, b, 0)

RECURSIVE TimesDigits(_, _, _)
TimesDigits(a, k, carry) ==
    IF a = <<>> THEN Digits(carry)
    ELSE LET p == Head(a) * k + carry
         IN  <<p % Base>> \o TimesDigits(Tail(a), k, p \div Base)

\* a * k for an integer 0 <= k < 2^16
Times(a, k) == IF k = 0 THEN <<>> ELSE TimesDigits(a, k, 0)

RECURSIVE DivMod(_, _)
\* quotient and remainder of a by an integer 0 < d < 2^16
DivMod(a, d) ==
    IF a = <<>> THEN [q |-> <<>>, r |-> 0]
    ELSE LET high == DivMod(Tail(a), d)
             cur == Base * high.r + Head(a)
         IN  [q |-> Trim(<<cur \div d>> \o high.q), r |-> cur % d]

\* a * 2^k
ShiftLeft(a, k) ==
    IF a = <<>> THEN <<>>
    ELSE [i \in 1..(k \div DigitBits) |-> 0] \o Times(a, 2 ^ (k % DigitBits))

\* a \div 2^k and a % 2^k
Split(a, k) ==
    LET whole == k \div DigitBits
        part == k % DigitBits
        upper == IF whole >= Len(a) THEN <<>> ELSE SubSeq(a, whole + 1, Len(a))
        cut == DivMod(upper, 2 ^ part)
        lower == IF whole >= Len(a) THEN a ELSE SubSeq(a, 1, whole) \o <<cut.r>>
    IN  [q |-> cut.q, r |-> Trim(lower)]

\* the number of bits of a
BitLength(a) ==
    IF a = <<>> THEN 0
    ELSE LET top == a[Len(a)]
         IN  DigitBits * (Len(a) - 1)
                 + (CHOOSE n \in 1..DigitBits : 2 ^ (n - 1) <= top /\ top < 2 ^ n)

LessOrEqual(a, b) ==
    IF Len(a) # Len(b) THEN Len(a) < Len(b)
    ELSE LET differ == {i \in DOMAIN a : a[i] # b[i]}
         IN  differ = {} \/ (LET top == CHOOSE i \in differ : \A j \in differ : j <= i
                             IN  a[top] < b[top])

Zero == [m |-> <<>>, e |-> 0]

\* m * 2^e rounded to Precision bits, ties to even
Rounded(m, e) ==
    IF m = <<>> THEN Zero
    ELSE IF BitLength(m) <= Precision
    THEN [m |-> ShiftLeft(m, Precision - BitLength(m)), e |-> e - (Precision - BitLength(m))]
    ELSE LET drop == BitLength(m) - Precision
             cut == Split(m, drop)
             half == ShiftLeft(<<1>>, drop - 1)
             more == ~LessOrEqual(cut.r, half)
             tie == cut.r = half
             up == more \/ (tie /\ Head(cut.q) % 2 = 1)
             kept == IF up THEN Plus(cut.q, <<1>>) ELSE cut.q
         IN  IF BitLength(kept) > Precision
             THEN [m |-> Split(kept, 1).q, e |-> e + drop + 1]
             ELSE [m |-> kept, e |-> e + drop]

\* the integer n as a double (exact: n < 2^31)
FromInt(n) == Rounded(Digits(n), 0)

\* n / d for integers n >= 0 and 0 < d < 2^16: the quotient to Precision + 2
\* bits or more, and a last bit that tells whether anything is left
IntDividedBy(n, d) ==
    LET shift == Precision + 1 + BitLength(Digits(d))
        qr == DivMod(ShiftLeft(Digits(n), shift), d)
        sticky == IF qr.r = 0 THEN 0 ELSE 1
    IN  Rounded(Plus(Times(qr.q, 2), Digits(sticky)), -(shift + 1))

\* f * k for an integer 0 <= k < 2^16
TimesInt(f, k) == Rounded(Times(f.m, k), f.e)

\* f / 2
Halved(f) == IF f = Zero THEN Zero ELSE [m |-> f.m, e |-> f.e - 1]

\* f + g
Sum(f, g) ==
    IF f = Zero THEN g
    ELSE IF g = Zero THEN f
    ELSE LET low == IF f.e < g.e THEN f.e ELSE g.e
         IN  Rounded(Plus(ShiftLeft(f.m, f.e - low), ShiftLeft(g.m, g.e - low)), low)

\* the literals 0.1 and 0.9
Literal01 == IntDividedBy(1, 10)
Literal09 == IntDividedBy(9, 10)

---------------------------------------------------------------------------
(* CheckerDetector.detectBoardRegions *)

Region(point, x, y, side) == [point |-> point, x |-> x, y |-> y, side |-> side]

\* (mutant) the bottom row numbered from 12, as "i + 12" would
BottomRowFromTwelve(boardWidth, boardHeight) ==
    LET regionWidth == IntDividedBy(boardWidth, 12)
    IN  [k \in 1..12 |->
            LET i == k - 1
            IN  Region(i + 12,
                       Sum(TimesInt(regionWidth, i), Halved(regionWidth)),
                       TimesInt(Literal09, boardHeight),
                       "bottom")]

\* the second loop: the bottom side
BottomRow(boardWidth, boardHeight) ==
    LET regionWidth == IntDividedBy(boardWidth, 12)
    IN  [k \in 1..12 |->
            LET i == k - 1
            IN  Region(i + 13,
                       Sum(TimesInt(regionWidth, i), Halved(regionWidth)),
                       TimesInt(Literal09, boardHeight),
                       "bottom")]

\* (mutant) the columns' left edges instead of their centres
TopRowLeftEdges(boardWidth, boardHeight) ==
    LET regionWidth == IntDividedBy(boardWidth, 12)
    IN  [k \in 1..12 |->
            LET i == k - 1
            IN  Region(i + 1,
                       TimesInt(regionWidth, i),
                       TimesInt(Literal01, boardHeight),
                       "top")]

\* the first loop: the top side
TopRow(boardWidth, boardHeight) ==
    LET regionWidth == IntDividedBy(boardWidth, 12)
    IN  [k \in 1..12 |->
            LET i == k - 1
            IN  Region(i + 1,
                       Sum(TimesInt(regionWidth, i), Halved(regionWidth)),
                       TimesInt(Literal01, boardHeight),
                       "top")]

detectBoardRegions(boardWidth, boardHeight) ==
    TopRow(boardWidth, boardHeight) \o BottomRow(boardWidth, boardHeight)

---------------------------------------------------------------------------
(* Submissions: the bodies the client (or anyone else) may POST *)

Checker(x, y) == [x |-> x, y |-> y]
Die(x, y, pips) == [x |-> x, y |-> y, pips |-> pips]
Cube(x, y, value) == [x |-> x, y |-> y, value |-> value]
Snapshot(checkers, dice, cube) == [checkers |-> checkers, dice |-> dice, cube |-> cube]

\* detectDoublingCube's value when no cube is found: {position: null, value: null}
NoCube == Cube(None, None, None)
\* detectDice's value when no die is found: {red: null, white: null}
NoDice == [red |-> None, white |-> None]

\* CheckerDetector.currentGameState as constructed, and every cycle that finds nothing
InitialGameState == Snapshot(Some(<<>>), Some(NoDice), Some(NoCube))
\* a snapshot without the optional members
BareGameState == Snapshot(Some(<<>>), None, None)
\* {} : an object without any member
EmptyGameState == Snapshot(None, None, None)
\* the specification's example: one checker at (120.4, 339.6)
OneCheckerState == Snapshot(Some(<<Checker(Some(1204), Some(3396))>>), None, None)
\* coordinates on exact halves and below zero
HalvesState ==
    Snapshot(Some(<<Checker(Some(25), Some(-25)), Checker(Some(-4), Some(5))>>),
             Some([red |-> Some(Die(Some(-15), Some(15), Some(6))), white |-> None]),
             Some(Cube(Some(-5), Some(4), Some(1))))
\* the README's example block
FullGameState ==
    Snapshot(Some(<<Checker(Some(1200), Some(3400)), Checker(Some(1800), Some(2900))>>),
             Some([red |-> Some(Die(Some(1500), Some(2000), Some(6))),
                   white |-> Some(Die(Some(1700), Some(2000), None))]),
             Some(Cube(Some(500), Some(3000), None)))
\* members missing inside the detections
PartialGameState ==
    Snapshot(Some(<<Checker(None, Some(3396))>>),
             Some([red |-> None, white |-> Some(Die(Some(1204), None, Some(3)))]),
             Some(Cube(Some(501), None, Some(2))))
\* a red die whose pips were not read
UnreadDieState ==
    Snapshot(Some(<<>>), Some([red |-> Some(Die(Some(1500), Some(2000), None)), white |-> None]),
             None)

Snapshots == {InitialGameState, BareGameState, EmptyGameState, OneCheckerState,
              HalvesState, FullGameState, PartialGameState, UnreadDieState}

ClientTimestamp == "2025-10-26T15:22:41.000Z"

Body(decoded, gameState, ts) == [decoded |-> decoded, gameState |-> gameState, timestamp |-> ts]

\* a body json_decode() cannot decode (or an empty one): $data is null
Undecodable == Body(FALSE, None, None)

MalformedBodies == {Undecodable,
                    Body(TRUE, None, Some(ClientTimestamp)),
                    Body(TRUE, Some(OneCheckerState), None)}

WellFormedBodies == {Body(TRUE, Some(s), Some(ClientTimestamp)) : s \in Snapshots}

\* what the serialization specification is checked on: one request at a time
AllSubmissions ==
    ({"POST"} \X (MalformedBodies \cup WellFormedBodies))
        \cup {<<"GET", Undecodable>>}

\* what the locking specification is checked on: concurrent requests
ConcurrentSubmissions ==
    {<<"POST", Body(TRUE, Some(BareGameState), Some(ClientTimestamp))>>,
     <<"POST", Body(TRUE, Some(OneCheckerState), Some(ClientTimestamp))>>,
     <<"POST", Undecodable>>,
     <<"GET", Undecodable>>}

---------------------------------------------------------------------------
(* save_move.php: the log entry *)

CheckerEntry(c) ==
    <<"  - Checker at position (x:", RoundOrZero(c.x), ", y:", RoundOrZero(c.y), ")\n">>

\* (mutant) the checker lines in reverse order
CheckersEntriesReversed(gameState, ts) ==
    IF isset(gameState.checkers)
    THEN LET checkers == Get(gameState.checkers)
         IN  <<<<"[", ts, "] === CHECKERS === (", ToString(Len(checkers)), " found)\n">>>>
                 \o [i \in 1..Len(checkers) |->
                        CheckerEntry(checkers[Len(checkers) + 1 - i])]
    ELSE <<>>

CheckersEntries(gameState, ts) ==
    IF isset(gameState.checkers)
    THEN LET checkers == Get(gameState.checkers)
         IN  <<<<"[", ts, "] === CHECKERS === (", ToString(Len(checkers)), " found)\n">>>>
                 \o [i \in 1..Len(checkers) |-> CheckerEntry(checkers[i])]
    ELSE <<>>

DieEntry(label, die) ==
    <<label, ValueOrPlaceholder(die.pips), " pips at (x:", RoundNullable(die.x),
      ", y:", RoundNullable(die.y), ")\n">>

DiceEntries(gameState, ts) ==
    IF isset(gameState.dice)
    THEN LET dice == Get(gameState.dice)
         IN  <<<<"[", ts, "] === DICE ===\n">>>>
                 \o (IF isset(dice.red) THEN <<DieEntry("  - Red Die: ", Get(dice.red))>>
                                        ELSE <<>>)
                 \o (IF isset(dice.white) THEN <<DieEntry("  - White Die: ", Get(dice.white))>>
                                          ELSE <<>>)
    ELSE <<>>

CubeEntries(gameState, ts) ==
    IF isset(gameState.cube) /\ isset(Get(gameState.cube).x)
    THEN LET cube == Get(gameState.cube)
         IN  << <<"[", ts, "] === DOUBLING CUBE ===\n">>,
                <<"  - Cube at (x:", RoundNullable(cube.x), ", y:", RoundNullable(cube.y),
                  "), value: ", ValueOrPlaceholder(cube.value), "\n">> >>
    ELSE <<>>

\* (mutant) the sections in another order: the cube first
BuildLogEntriesCubeFirst(gameState, ts) ==
    CubeEntries(gameState, ts) \o CheckersEntries(gameState, ts)
        \o DiceEntries(gameState, ts) \o << <<"\n">> >>

\* $logEntries as built from $gameState at server time ts
BuildLogEntries(gameState, ts) ==
    CheckersEntries(gameState, ts) \o DiceEntries(gameState, ts)
        \o CubeEntries(gameState, ts) \o << <<"\n">> >>

\* (mutant) the validation without its timestamp test
InvalidDataTimestampUnchecked(data) == ~data.decoded \/ ~isset(data.gameState)

\* the validation of the decoded body
InvalidData(data) == ~data.decoded \/ ~isset(data.gameState) \/ ~isset(data.timestamp)

---------------------------------------------------------------------------
(* HTTP answers *)

NoReply == [status |-> 0, success |-> FALSE, logged |-> 0, timestamp |-> "", error |-> ""]
ErrorReply(status, error) ==
    [status |-> status, success |-> FALSE, logged |-> 0, timestamp |-> "", error |-> error]
SuccessReply(logged, ts) ==
    [status |-> 200, success |-> TRUE, logged |-> logged, timestamp |-> ts, error |-> ""]

---------------------------------------------------------------------------
(* The file *)

\* (mutant) the file written without FILE_APPEND: each write replaces the content
WriteTruncating(content, data) == data

\* a write(2) on a descriptor opened with FILE_APPEND (O_APPEND)
AppendToFile(content, data) == content \o data

\* (mutant) file_put_contents without LOCK_EX: nothing to wait for
LockNotTaken(holder) == TRUE

\* flock(LOCK_EX) returns once no other descriptor holds the lock
LockAvailable(holder) == holder = 0

\* the tokens request r still has to write
Data(r) == Flatten(logEntries[r])
Remaining(r) == Len(Data(r)) - written[r]

---------------------------------------------------------------------------
(* CheckerDetector: what the vision library finds, and what detect() makes  *)
(* of it.  Pixel coordinates and radii are in tenths, like the submitted    *)
(* numbers; areas and moments are whole numbers.                            *)

\* the size of the camera's video, which the canvas takes
VideoSize == [width |-> 640, height |-> 480]

\* HTMLMediaElement.readyState
HAVE_NOTHING == 0
HAVE_ENOUGH_DATA == 4

\* one circle of cv.HoughCircles: data32F[3i], [3i + 1], [3i + 2]
Circle(x, y, radius) == [x |-> x, y |-> y, radius |-> radius]

\* one contour of cv.findContours with what cv.contourArea, cv.approxPolyDP
\* and cv.moments compute from it.  An outer contour that encloses an area
\* lies on the canvas: its centroid (m10 / m00, m01 / m00) is positive.
Contour(area, vertices, m00, m10, m01) ==
    [area |-> area, vertices |-> vertices, m00 |-> m00, m10 |-> m10, m01 |-> m01]

\* a video frame: the OpenCV call that throws on it (if any) and which of its
\* calls in one detection throws (the at-th), the circles of the two
\* HoughCircles calls and the contours
Frame(fault, circles, diceCircles, contours) ==
    [fault |-> fault, at |-> 1, circles |-> circles, diceCircles |-> diceCircles,
     contours |-> contours]

EmptyFrame == Frame("none", <<>>, <<>>, <<>>)

\* two checkers on the canvas and a circle on its right edge, two dice, three
\* contours of which the second is the largest that can be a cube
BoardFrame ==
    Frame("none",
          <<Circle(1204, 3396, 200), Circle(6400, 1000, 200), Circle(1800, 2900, 180)>>,
          <<Circle(1500, 2000, 120), Circle(1700, 2000, 100)>>,
          <<Contour(2000, 4, 2000, 100000, 600000), Contour(3000, 5, 3000, 150000, 900000),
            Contour(20000, 4, 20000, 6400000, 4800000)>>)

\* one die, and nothing that can be a cube
OneDieFrame ==
    Frame("none", <<>>, <<Circle(1500, 2000, 120), Circle(1700, 2000, 250)>>,
          <<Contour(500, 4, 500, 5000, 5000), Contour(2000, 9, 2000, 100000, 600000)>>)

\* frames on which an OpenCV call throws: in detect() itself, in
\* detectCheckers, in detectDice, in detectDoublingCube
FaultyFrame(fault) ==
    Frame(fault, <<Circle(1204, 3396, 200)>>, <<>>,
          <<Contour(2000, 4, 2000, 100000, 600000)>>)

\* a cube and nothing else
CubeFrame == Frame("none", <<>>, <<>>, <<Contour(2000, 4, 2000, 100000, 600000)>>)

Faults == {"imread", "HoughCircles", "diceHoughCircles", "Canny"}

Frames == {EmptyFrame, BoardFrame, OneDieFrame, CubeFrame} \cup {FaultyFrame(fault) : fault \in Faults}

\* the detections as JavaScript objects
CheckerDetection(c) == [x |-> c.x, y |-> c.y, radius |-> c.radius, type |-> "checker"]
DiceDetection(c, pipCount) ==
    [x |-> c.x, y |-> c.y, radius |-> c.radius, pips |-> pipCount, type |-> "dice"]
FoundCube(x, y, area, value) == [x |-> x, y |-> y, area |-> area, value |-> value]
\* { position: null, value: null }
NoCubeFound == [position |-> None, value |-> None]

\* x > 0 && y > 0 && x < this.canvas.width && y < this.canvas.height
OnCanvas(c, cv) == c.x > 0 /\ c.y > 0 /\ c.x < 10 * cv.width /\ c.y < 10 * cv.height

detectCheckers(f, cv) ==
    LET Kept(c) == OnCanvas(c, cv)
        kept == SelectSeq(f.circles, Kept)
    IN  [i \in 1..Len(kept) |-> CheckerDetection(kept[i])]

\* the circles detectDice keeps: on the canvas and radius < 25
DiceCircles(f, cv) ==
    LET Kept(c) == OnCanvas(c, cv) /\ c.radius < 250
    IN  SelectSeq(f.diceCircles, Kept)

\* detectDicePips: Math.floor(Math.random() * 6) + 1
PipCounts == 1..6

\* pips[i] is what detectDicePips returns for the i-th die kept
detectDice(f, cv, pips) ==
    LET kept == DiceCircles(f, cv)
        dice == [i \in 1..Len(kept) |-> DiceDetection(kept[i], pips[i])]
    IN  [red   |-> IF Len(dice) >= 1 THEN Some(dice[1]) ELSE None,
         white |-> IF Len(dice) >= 2 THEN Some(dice[2]) ELSE None]

\* return 1: the placeholder
detectCubeValue == 1

\* m10 / m00, in tenths (the frames have moments that make it whole)
Centroid(m, m00) == (10 * m) \div m00

RECURSIVE BestCube(_, _, _, _, _)
\* the loop over the contours of frame f, from bestCube and maxArea so far;
\* calls counts the calls made so far of the OpenCV call that throws on f.
\* cv.approxPolyDP is called for a contour whose area is in range, cv.moments
\* for one that also has 4 to 6 vertices and an area above maxArea.  The
\* value: whether an exception left the loop, and bestCube at that point
BestCube(f, contours, bestCube, maxArea, calls) ==
    IF contours = <<>> THEN [thrown |-> FALSE, bestCube |-> bestCube]
    ELSE LET c == Head(contours)
             approxCalled == c.area > 1000 /\ c.area < 10000
             momentsCalled ==
                 approxCalled /\ c.vertices >= 4 /\ c.vertices <= 6 /\ c.area > maxArea
             faultyCalled == \/ f.fault = "approxPolyDP" /\ approxCalled
                             \/ f.fault = "moments" /\ momentsCalled
             made == IF faultyCalled THEN calls + 1 ELSE calls
         IN  IF faultyCalled /\ made = f.at
             THEN [thrown |-> TRUE, bestCube |-> bestCube]
             ELSE IF momentsCalled /\ c.m00 # 0
             THEN BestCube(f, Tail(contours),
                           Some(FoundCube(Centroid(c.m10, c.m00), Centroid(c.m01, c.m00),
                                          c.area, detectCubeValue)),
                           c.area, made)
             ELSE BestCube(f, Tail(contours), bestCube, maxArea, made)

\* (mutant) the catch hands back what the loop had found when the exception came
detectDoublingCubeKeepingBest(f) ==
    IF f.fault = "Canny" THEN NoCubeFound
    ELSE Coalesce(BestCube(f, f.contours, None, 0, 0).bestCube, NoCubeFound)

\* bestCube || { position: null, value: null } after the loop; the catch
\* returns { position: null, value: null } whatever the loop had found
detectDoublingCube(f) ==
    IF f.fault = "Canny" THEN NoCubeFound
    ELSE LET loop == BestCube(f, f.contours, None, 0, 0)
         IN  IF loop.thrown THEN NoCubeFound ELSE Coalesce(loop.bestCube, NoCubeFound)

\* the regions of the video-sized canvas, computed once
VideoRegions == detectBoardRegions(VideoSize.width, VideoSize.height)
RegionsOf(cv) ==
    IF cv = VideoSize THEN VideoRegions ELSE detectBoardRegions(cv.width, cv.height)

\* new Date().toISOString() at time t of the browser's clock
toISOString(t) == "2025-10-26T15:22:41.00" \o ToString(t) \o "Z"

GameState(checkers, dice, cube, regions, ts) ==
    [checkers |-> checkers, dice |-> dice, cube |-> cube, boardRegions |-> regions,
     timestamp |-> ts]

\* this.currentGameState as the constructor leaves it (no boardRegions member)
ConstructedGameState == GameState(<<>>, NoDice, NoCubeFound, None, None)

\* an exception reaches the catch of detect(): thrown by imread, cvtColor or
\* GaussianBlur, or inside detectCheckers or detectDice, which catch nothing
Throws(f) == f.fault \in {"imread", "HoughCircles", "diceHoughCircles"}

\* (mutant) the state assigned member by member, as each detection returns
detectPiecemeal(state, f, cv, pips, t) ==
    IF f.fault = "imread" THEN state
    ELSE IF f.fault = "HoughCircles" THEN state
    ELSE IF f.fault = "diceHoughCircles"
         THEN [state EXCEPT !.checkers = detectCheckers(f, cv)]
    ELSE GameState(detectCheckers(f, cv), detectDice(f, cv, pips), detectDoublingCube(f),
                   Some(RegionsOf(cv)), Some(toISOString(t)))

\* the try block of detect(): this.currentGameState after it.  What follows
\* the assignment, drawAllDetections, draws on the 2D context with the radii
\* HoughCircles returned (positive) and constants: those calls do not throw.
detect(state, f, cv, pips, t) ==
    IF Throws(f) THEN state
    ELSE GameState(detectCheckers(f, cv), detectDice(f, cv, pips), detectDoublingCube(f),
                   Some(RegionsOf(cv)), Some(toISOString(t)))

\* the detector as constructed by the page: init() not yet called, no video
DetectorConstructed ==
    /\ initialized = FALSE
    /\ readyState = HAVE_NOTHING
    /\ frame = EmptyFrame
    /\ currentGameState = ConstructedGameState
    /\ returned = None
    /\ outcome = "never called"
    /\ now = 0

---------------------------------------------------------------------------
(* app.js *)

\* gameState.cube?.x ? 1 : 0 (mutant: gameState.cube ? 1 : 0)
CubeCountedWhenPresent(gameState) == TRUE

\* gameState.cube?.x ? 1 : 0 and gameState.cube && gameState.cube.x: a number
\* is truthy unless it is 0
CubeCounted(gameState) == "x" \in DOMAIN gameState.cube /\ gameState.cube.x # 0

\* totalDetections
TotalDetections(gameState) ==
    Len(gameState.checkers)
        + (IF isset(gameState.dice.red) THEN 1 ELSE 0)
        + (IF isset(gameState.dice.white) THEN 1 ELSE 0)
        + (IF CubeCounted(gameState) THEN 1 ELSE 0)

\* a die as JSON.stringify writes it and json_decode reads it
StringifyDie(opt) ==
    IF isset(opt) THEN Some(Die(Some(Get(opt).x), Some(Get(opt).y), Some(Get(opt).pips)))
    ELSE None

\* JSON.stringify(gameState) as json_decode reads it: null and missing members
\* are not set; radius, type, area, boardRegions and the state's own timestamp
\* travel too, the script reads none of them
Stringify(gameState) ==
    Snapshot(Some([i \in 1..Len(gameState.checkers) |->
                      Checker(Some(gameState.checkers[i].x), Some(gameState.checkers[i].y))]),
             Some([red |-> StringifyDie(gameState.dice.red),
                   white |-> StringifyDie(gameState.dice.white)]),
             Some(IF "x" \in DOMAIN gameState.cube
                  THEN Cube(Some(gameState.cube.x), Some(gameState.cube.y),
                            Some(gameState.cube.value))
                  ELSE NoCube))

\* the page as init() leaves it.  The page's markup is not among the sources:
\* the Stop button is taken as disabled until a start completes, which is also
\* how stopDetection leaves the two buttons.
AppLoaded ==
    /\ isDetecting = FALSE
    /\ detectionInterval = 0
    /\ srcObject = 0
    /\ disabled = [startBtn |-> FALSE, stopBtn |-> TRUE]
    /\ starts = [k \in 1..MaxStarts |-> "unused"]
    /\ listeners = <<>>
    /\ timers = {}
    /\ live = {}
    /\ loading = FALSE
    /\ detectionCount = 0
    /\ outbox = <<>>
    /\ stopped = FALSE
    /\ shown = [r \in Requests |-> FALSE]

---------------------------------------------------------------------------
(* The state after deployment: no request yet, an empty moves.txt *)

ServerDeployed ==
    /\ pc = [r \in Requests |-> "idle"]
    /\ request = [r \in Requests |-> [method |-> "", data |-> Undecodable]]
    /\ timestamp = [r \in Requests |-> ""]
    /\ logEntries = [r \in Requests |-> <<>>]
    /\ written = [r \in Requests |-> 0]
    /\ reply = [r \in Requests |-> NoReply]
    /\ log = <<>>
    /\ writer = <<>>
    /\ lockHolder = 0
    /\ clock = 0

\* the page not loaded: no canvas size, no detection yet
DetectorUnused ==
    /\ canvas = [width |-> 0, height |-> 0]
    /\ boardRegions = <<>>

InitServer == ServerDeployed /\ DetectorUnused /\ DetectorConstructed /\ AppLoaded

---------------------------------------------------------------------------
(* Actions of one request *)

\* a request reaches the server
Receive(r, submission) ==
    /\ pc[r] = "idle"
    /\ request' = [request EXCEPT ![r] = [method |-> submission[1], data |-> submission[2]]]
    /\ pc' = [pc EXCEPT ![r] = "received"]
    /\ UNCHANGED <<timestamp, logEntries, written, reply, log, writer, lockHolder, clock>>

\* some client sends a request
Submit(r, submission) ==
    /\ Receive(r, submission)
    /\ UNCHANGED clientVars

\* the script up to the call of file_put_contents: method check, validation,
\* $timestamp, $logEntries
Handle(r) ==
    /\ pc[r] = "received"
    /\ IF request[r].method # "POST"
       THEN /\ reply' = [reply EXCEPT ![r] = ErrorReply(405, "Only POST method allowed")]
            /\ pc' = [pc EXCEPT ![r] = "done"]
            /\ UNCHANGED <<timestamp, logEntries>>
       ELSE IF InvalidData(request[r].data)
       THEN /\ reply' = [reply EXCEPT ![r] = ErrorReply(400, "Invalid data format")]
            /\ pc' = [pc EXCEPT ![r] = "done"]
            /\ UNCHANGED <<timestamp, logEntries>>
       ELSE /\ timestamp' = [timestamp EXCEPT ![r] = date(clock)]
            /\ logEntries' = [logEntries EXCEPT ![r] =
                                BuildLogEntries(Get(request[r].data.gameState), date(clock))]
            /\ pc' = [pc EXCEPT ![r] = "open"]
            /\ UNCHANGED reply
    /\ UNCHANGED <<request, written, log, writer, lockHolder, clock>>
    /\ UNCHANGED clientVars

\* file_put_contents opens moves.txt for appending
Open(r) ==
    /\ pc[r] = "open"
    /\ pc' = [pc EXCEPT ![r] = "flock"]
    /\ UNCHANGED <<request, timestamp, logEntries, written, reply, log, writer, lockHolder, clock>>
    /\ UNCHANGED clientVars

\* the open fails (no permission, no inode left): file_put_contents returns false,
\* $success is false, the script throws and answers 500
OpenFails(r) ==
    /\ pc[r] = "open"
    /\ reply' = [reply EXCEPT ![r] = ErrorReply(500, "Server error")]
    /\ pc' = [pc EXCEPT ![r] = "done"]
    /\ UNCHANGED <<request, timestamp, logEntries, written, log, writer, lockHolder, clock>>
    /\ UNCHANGED clientVars

\* flock(LOCK_EX): blocks, with no timeout, until the lock is free
Lock(r) ==
    /\ pc[r] = "flock"
    /\ LockAvailable(lockHolder)
    /\ lockHolder' = r
    /\ pc' = [pc EXCEPT ![r] = "write"]
    /\ UNCHANGED <<request, timestamp, logEntries, written, reply, log, writer, clock>>
    /\ UNCHANGED clientVars

\* one write(2) of the stream's write loop: n tokens reach the file
WriteChunk(r, n) ==
    /\ pc[r] = "write"
    /\ n \in 1..Remaining(r)
    /\ log' = AppendToFile(log, SubSeq(Data(r), written[r] + 1, written[r] + n))
    /\ writer' = AppendToFile(writer, [i \in 1..n |-> r])
    /\ written' = [written EXCEPT ![r] = written[r] + n]
    /\ UNCHANGED <<pc, request, timestamp, logEntries, reply, lockHolder, clock>>
    /\ UNCHANGED clientVars

\* a write(2) fails (disk full) with data left: "Only %d of %d bytes written",
\* the stream is closed (which drops the lock), file_put_contents returns false
WriteFails(r) ==
    /\ pc[r] = "write"
    /\ Remaining(r) > 0
    /\ lockHolder' = IF lockHolder = r THEN 0 ELSE lockHolder
    /\ reply' = [reply EXCEPT ![r] = ErrorReply(500, "Server error")]
    /\ pc' = [pc EXCEPT ![r] = "done"]
    /\ UNCHANGED <<request, timestamp, logEntries, written, log, writer, clock>>
    /\ UNCHANGED clientVars

\* all is written: the stream is closed (which drops the lock), $success is true
\* and the script answers {success, logged, timestamp}
Respond(r) ==
    /\ pc[r] = "write"
    /\ Remaining(r) = 0
    /\ lockHolder' = IF lockHolder = r THEN 0 ELSE lockHolder
    /\ reply' = [reply EXCEPT ![r] = SuccessReply(Len(logEntries[r]), timestamp[r])]
    /\ pc' = [pc EXCEPT ![r] = "done"]
    /\ UNCHANGED <<request, timestamp, logEntries, written, log, writer, clock>>
    /\ UNCHANGED clientVars

\* the process holding the lock stops for good inside write(2) (a hung mount,
\* a stopped worker): it neither writes on nor closes the file
Stall(r) ==
    /\ pc[r] = "write"
    /\ pc' = [pc EXCEPT ![r] = "stalled"]
    /\ UNCHANGED <<request, timestamp, logEntries, written, reply, log, writer, lockHolder, clock>>
    /\ UNCHANGED clientVars

\* a second passes on the server
Tick ==
    /\ clock < MaxClock
    /\ clock' = clock + 1
    /\ UNCHANGED <<pc, request, timestamp, logEntries, written, reply, log, writer, lockHolder>>
    /\ UNCHANGED clientVars

Step(r) ==
    \/ Handle(r)
    \/ Open(r)
    \/ Lock(r)
    \/ \E n \in 1..Remaining(r) : WriteChunk(r, n)
    \/ Respond(r)

Failure(r) ==
    \/ OpenFails(r)
    \/ WriteFails(r)
    \/ Stall(r)

\* concurrent requests to the endpoint
NextLog ==
    \E r \in Requests :
        \/ \E s \in ConcurrentSubmissions : Submit(r, s)
        \/ Step(r)
        \/ Failure(r)

SpecLog == InitServer /\ [][NextLog]_vars

\* the same, with every script that can go on going on eventually; nothing
\* obliges a client to send, a failure to happen or a stalled process to resume
FairSpecLog == SpecLog /\ \A r \in Requests : WF_vars(Step(r))

\* one request at a time, every kind of body, the clock running
NextFormat ==
    \/ \E s \in AllSubmissions : Submit(1, s)
    \/ Step(1)
    \/ Failure(1)
    \/ Tick

SpecFormat == InitServer /\ [][NextFormat]_vars

\* the client's timer sends the state it detects ten times a second: the same
\* body arrives again and again
RepeatedSubmissions ==
    {<<"POST", Body(TRUE, Some(OneCheckerState), Some(ClientTimestamp))>>,
     <<"POST", Body(TRUE, Some(BareGameState), Some(ClientTimestamp))>>}

\* repeated requests while the server's clock runs
NextReplay ==
    \/ \E r \in Requests :
           \/ \E s \in RepeatedSubmissions : Submit(r, s)
           \/ Step(r)
    \/ Tick

SpecReplay == InitServer /\ [][NextReplay]_vars

---------------------------------------------------------------------------
(* The detector's board regions *)

\* the sizes the canvas takes from the video (videoWidth x videoHeight)
CanvasSizes ==
    [width : 1..MaxWidth \cup {640, 1280, 1920}, height : 1..MaxHeight \cup {480, 720}]

\* the canvas sized by the loadedmetadata handler, no detection cycle yet
InitRegions ==
    /\ ServerDeployed
    /\ DetectorConstructed
    /\ AppLoaded
    /\ canvas \in CanvasSizes
    /\ boardRegions = <<>>

\* a detection cycle computes the regions from the canvas size
DetectBoardRegions ==
    /\ boardRegions' = detectBoardRegions(canvas.width, canvas.height)
    /\ UNCHANGED <<canvas, serverVars, classVars, appVars>>

NextRegions == DetectBoardRegions

SpecRegions == InitRegions /\ [][NextRegions]_vars

---------------------------------------------------------------------------
(* The detector's methods, called on a sized canvas *)

InitDetector ==
    /\ ServerDeployed
    /\ DetectorConstructed
    /\ AppLoaded
    /\ canvas = VideoSize
    /\ boardRegions = <<>>

\* init() with OpenCV.js loaded
DetectorInit ==
    /\ ~initialized
    /\ initialized' = TRUE
    /\ UNCHANGED <<readyState, frame, currentGameState, returned, outcome, now>>
    /\ UNCHANGED <<detectorVars, serverVars, appVars>>

\* the video element gets or loses data
VideoReadyState(state) ==
    /\ state # readyState
    /\ readyState' = state
    /\ UNCHANGED <<initialized, frame, currentGameState, returned, outcome, now>>
    /\ UNCHANGED <<detectorVars, serverVars, appVars>>

\* the camera shows something else
NewFrame(f) ==
    /\ f # frame
    /\ frame' = f
    /\ UNCHANGED <<initialized, readyState, currentGameState, returned, outcome, now>>
    /\ UNCHANGED <<detectorVars, serverVars, appVars>>

\* time passes in the browser
ClientTick ==
    /\ now < MaxNow
    /\ now' = now + 1
    /\ UNCHANGED <<initialized, readyState, frame, currentGameState, returned, outcome>>
    /\ UNCHANGED <<detectorVars, serverVars, appVars>>

\* what one call of detect() does to the detector; pips are the values
\* Math.random gives detectDicePips during the call
DetectCall(pips) ==
    /\ IF ~initialized \/ readyState # HAVE_ENOUGH_DATA
       THEN /\ outcome' = "not ready"
            /\ UNCHANGED <<currentGameState, boardRegions>>
       ELSE /\ currentGameState' = detect(currentGameState, frame, canvas, pips, now)
            /\ IF Throws(frame)
               THEN outcome' = "threw" /\ UNCHANGED boardRegions
               ELSE outcome' = "completed" /\ boardRegions' = RegionsOf(canvas)
    /\ returned' = Some(currentGameState')

\* the values Math.random can give for the dice of frame f
PipsFor(f, cv) == [1..Len(DiceCircles(f, cv)) -> PipCounts]

\* detect() called
Detect(pips) ==
    /\ DetectCall(pips)
    /\ UNCHANGED <<initialized, readyState, frame, now, canvas>>
    /\ UNCHANGED <<serverVars, appVars>>

NextDetector ==
    \/ DetectorInit
    \/ \E state \in {HAVE_NOTHING, HAVE_ENOUGH_DATA} : VideoReadyState(state)
    \/ \E f \in Frames : NewFrame(f)
    \/ ClientTick
    \/ \E pips \in PipsFor(frame, canvas) : Detect(pips)

SpecDetector == InitDetector /\ [][NextDetector]_vars

---------------------------------------------------------------------------
(* The page: Start and Stop, the camera, the timer.  OpenCV.js is loaded.   *)

InitApp == ServerDeployed /\ DetectorUnused /\ DetectorConstructed /\ AppLoaded

\* a click on Start: startDetection up to its await
ClickStart ==
    /\ ~disabled.startBtn
    /\ \E k \in 1..MaxStarts :
           /\ starts[k] = "unused"
           /\ \A j \in 1..(k - 1) : starts[j] # "unused"
           /\ starts' = [starts EXCEPT ![k] = "getUserMedia"]
    /\ stopped' = FALSE
    /\ UNCHANGED <<isDetecting, detectionInterval, srcObject, disabled, listeners, timers,
                   live, loading, detectionCount, outbox, shown>>
    /\ UNCHANGED <<detectorVars, classVars, serverVars>>

\* getUserMedia resolves with stream k: startDetection from its await to its end
CameraGranted(k) ==
    /\ starts[k] = "getUserMedia"
    /\ live' = live \cup {k}
    /\ srcObject' = k
    /\ loading' = TRUE
    /\ listeners' = Append(listeners, k)
    /\ starts' = [starts EXCEPT ![k] = "loadedmetadata"]
    /\ UNCHANGED <<isDetecting, detectionInterval, disabled, timers, detectionCount, outbox,
                   stopped, shown>>
    /\ UNCHANGED <<detectorVars, classVars, serverVars>>

\* getUserMedia rejects: the catch of startDetection
CameraDenied(k) ==
    /\ starts[k] = "getUserMedia"
    /\ starts' = [starts EXCEPT ![k] = "denied"]
    /\ UNCHANGED <<isDetecting, detectionInterval, srcObject, disabled, listeners, timers,
                   live, loading, detectionCount, outbox, stopped, shown>>
    /\ UNCHANGED <<detectorVars, classVars, serverVars>>

\* the ids in a sequence
Range(seq) == {seq[i] : i \in DOMAIN seq}

\* the video fires loadedmetadata: every listener registered runs, once, in
\* order; each sizes the canvas and calls init(), whose promise is resolved at
\* once, so its then() runs before anything else: isDetecting, a new timer
\* (with its listener's number as id), the buttons
LoadedMetadata ==
    /\ loading
    /\ loading' = FALSE
    /\ IF listeners = <<>>
       THEN UNCHANGED <<canvas, initialized, isDetecting, detectionInterval, timers,
                        disabled, starts, listeners>>
       ELSE /\ canvas' = VideoSize
            /\ initialized' = TRUE
            /\ isDetecting' = TRUE
            /\ detectionInterval' = listeners[Len(listeners)]
            /\ timers' = timers \cup Range(listeners)
            /\ disabled' = [startBtn |-> TRUE, stopBtn |-> FALSE]
            /\ starts' = [k \in 1..MaxStarts |->
                             IF k \in Range(listeners) THEN "started" ELSE starts[k]]
            /\ listeners' = <<>>
    /\ UNCHANGED <<srcObject, live, detectionCount, outbox, stopped, shown>>
    /\ UNCHANGED <<boardRegions, readyState, frame, currentGameState, returned, outcome, now>>
    /\ UNCHANGED serverVars

\* a click on Stop: stopDetection.  Taking the stream off the video resets
\* the video element.
ClickStop ==
    /\ ~disabled.stopBtn
    /\ isDetecting' = FALSE
    /\ timers' = timers \ {detectionInterval}
    /\ detectionInterval' = 0
    /\ live' = live \ {srcObject}
    /\ srcObject' = 0
    /\ loading' = IF srcObject # 0 THEN FALSE ELSE loading
    /\ readyState' = IF srcObject # 0 THEN HAVE_NOTHING ELSE readyState
    /\ disabled' = [startBtn |-> FALSE, stopBtn |-> TRUE]
    /\ stopped' = TRUE
    /\ UNCHANGED <<starts, listeners, detectionCount, outbox, shown>>
    /\ UNCHANGED <<detectorVars, serverVars>>
    /\ UNCHANGED <<initialized, frame, currentGameState, returned, outcome, now>>

\* the video of a stream gets or loses data
VideoData(state) ==
    /\ state = HAVE_ENOUGH_DATA => (srcObject # 0 /\ ~loading)
    /\ VideoReadyState(state)

\* the request body of logGameState
PostBody(gameState, t) == Body(TRUE, Some(Stringify(gameState)), Some(toISOString(t)))

\* timer t fires: detectCheckers, with detect(), the count, logGameState up to
\* its fetch.  With isDetecting false the handler returns at once.
TimerTick(t, pips) ==
    /\ t \in timers
    /\ isDetecting
    /\ Len(outbox) < MaxPosts
    /\ DetectCall(pips)
    /\ detectionCount' = TotalDetections(currentGameState')
    /\ outbox' = Append(outbox, [body |-> PostBody(currentGameState', now),
                                 cube |-> CubeCounted(currentGameState')])
    /\ UNCHANGED <<isDetecting, detectionInterval, srcObject, disabled, starts, listeners,
                   timers, live, loading, stopped, shown>>
    /\ UNCHANGED <<initialized, readyState, frame, now, canvas>>
    /\ UNCHANGED serverVars

NextApp ==
    \/ ClickStart
    \/ ClickStop
    \/ \E k \in 1..MaxStarts : CameraGranted(k) \/ CameraDenied(k)
    \/ LoadedMetadata
    \/ \E state \in {HAVE_NOTHING, HAVE_ENOUGH_DATA} : VideoData(state)
    \/ \E t \in timers : \E pips \in PipsFor(frame, canvas) : TimerTick(t, pips)

SpecApp == InitApp /\ [][NextApp]_vars

---------------------------------------------------------------------------
(* From the camera to moves.txt: the page detecting, its POSTs, the script *)

\* what the camera may be pointed at
PipelineFrames == {EmptyFrame, CubeFrame, FaultyFrame("Canny")}

\* the page after one Start has completed (ClickStart, CameraGranted(1),
\* LoadedMetadata), the camera pointed at something
InitPipeline ==
    /\ ServerDeployed
    /\ canvas = VideoSize
    /\ boardRegions = <<>>
    /\ initialized = TRUE
    /\ readyState = HAVE_NOTHING
    /\ frame \in PipelineFrames
    /\ currentGameState = ConstructedGameState
    /\ returned = None
    /\ outcome = "never called"
    /\ now = 0
    /\ isDetecting = TRUE
    /\ detectionInterval = 1
    /\ srcObject = 1
    /\ disabled = [startBtn |-> TRUE, stopBtn |-> FALSE]
    /\ starts = [k \in 1..MaxStarts |-> IF k = 1 THEN "started" ELSE "unused"]
    /\ listeners = <<>>
    /\ timers = {1}
    /\ live = {1}
    /\ loading = FALSE
    /\ detectionCount = 0
    /\ outbox = <<>>
    /\ stopped = FALSE
    /\ shown = [r \in Requests |-> FALSE]

\* the oldest POST in flight reaches the script as request r
Deliver(r) ==
    /\ outbox # <<>>
    /\ Receive(r, <<"POST", Head(outbox).body>>)
    /\ outbox' = Tail(outbox)
    /\ shown' = [shown EXCEPT ![r] = Head(outbox).cube]
    /\ UNCHANGED <<isDetecting, detectionInterval, srcObject, disabled, starts, listeners,
                   timers, live, loading, detectionCount, stopped>>
    /\ UNCHANGED <<detectorVars, classVars>>

NextPipeline ==
    \/ \E state \in {HAVE_NOTHING, HAVE_ENOUGH_DATA} : VideoData(state)
    \/ \E t \in timers : \E pips \in PipsFor(frame, canvas) : TimerTick(t, pips)
    \/ Deliver(1)
    \/ Step(1)

SpecPipeline == InitPipeline /\ [][NextPipeline]_vars

---------------------------------------------------------------------------
(* detectDoublingCube, called on what cv.findContours can find *)

\* what cv.contourArea gives, on both sides of the two limits of the filter
Areas == {1000, 1001, 9999, 10000}

\* approx.rows, on both sides of 4 and of 6
VertexCounts == {3, 4, 6, 7}

\* the contours: moments.m00 is the area and the centroid follows the shape,
\* or the moments are all 0 (for a quadrilateral)
CubeContours ==
    UNION {{Contour(area, vertices, area, area * 10 * vertices, area * 20) :
               vertices \in VertexCounts} \cup {Contour(area, 4, 0, 0, 0)} : area \in Areas}

\* the OpenCV call that throws, and which of its calls does: none, cv.Canny,
\* or a call inside the loop
CubeFaults ==
    {<<"none", 1>>, <<"Canny", 1>>}
        \cup {<<fault, at>> : fault \in {"approxPolyDP", "moments"}, at \in 1..MaxContours}

\* the frames: up to MaxContours contours, found in any order
CubeInputs ==
    {[Frame(fault[1], <<>>, <<>>, contours) EXCEPT !.at = fault[2]] :
        fault \in CubeFaults,
        contours \in UNION {[1..n -> CubeContours] : n \in 0..MaxContours}}

\* detect() has reached its call of detectDoublingCube on some frame
InitCube ==
    /\ ServerDeployed
    /\ AppLoaded
    /\ canvas = VideoSize
    /\ boardRegions = <<>>
    /\ initialized = TRUE
    /\ readyState = HAVE_ENOUGH_DATA
    /\ frame \in CubeInputs
    /\ currentGameState = ConstructedGameState
    /\ returned = None
    /\ outcome = "never called"
    /\ now = 0

\* detectDoublingCube() called: it always returns
DetectDoublingCube ==
    /\ returned' = Some(detectDoublingCube(frame))
    /\ outcome' = "completed"
    /\ UNCHANGED <<initialized, readyState, frame, currentGameState, now>>
    /\ UNCHANGED <<detectorVars, serverVars, appVars>>

NextCube == DetectDoublingCube

SpecCube == InitCube /\ [][NextCube]_vars


---------------------------------------------------------------------------
(* What the claims speak of *)

\* the tokens of the log that request r wrote, in file order
TokensOf(r) ==
    LET pairs == [i \in DOMAIN log |-> <<log[i], writer[i]>>]
        ByR(p) == p[2] = r
        mine == SelectSeq(pairs, ByR)
    IN  [i \in DOMAIN mine |-> mine[i][1]]

NothingWrittenBy(r) == \A i \in DOMAIN writer : writer[i] # r

\* the tokens that end a line
LineEnds == {" found)\n", ")\n", "] === DICE ===\n", "] === DOUBLING CUBE ===\n", "\n"}
LineCount(tokens) == Cardinality({i \in DOMAIN tokens : tokens[i] \in LineEnds})

IsPrefix(s, t) == Len(s) <= Len(t) /\ SubSeq(t, 1, Len(s)) = s

Abs(n) == IF n < 0 THEN -n ELSE n

\* the script got as far as building $logEntries
Accepted(r) == logEntries[r] # <<>>

\* the call of file_put_contents has returned false
AppendFailed(r) == pc[r] = "done" /\ Accepted(r) /\ ~reply[r].success

Malformed(data) == ~data.decoded \/ data.gameState = None \/ data.timestamp = None

---------------------------------------------------------------------------
(* C1: the tokens (hence the lines) each submission appends form one       *)
(* contiguous block of the log: between two tokens of one submission there *)
(* is no token of another, however the concurrent requests interleave.     *)
(* Stated on the boundaries: where the log passes from one submission's     *)
(* tokens to another's, no token of the first follows.                     *)
C1_BlocksContiguous ==
    \A j \in DOMAIN writer :
        (j < Len(writer) /\ writer[j] # writer[j + 1]) =>
            \A k \in (j + 1)..Len(writer) : writer[k] # writer[j]

\* a request waits in flock() while another is in the middle of its block
C1_Witness ==
    \E r1, r2 \in Requests :
        /\ r1 # r2
        /\ pc[r1] = "write" /\ written[r1] > 1 /\ Remaining(r1) > 0
        /\ pc[r2] = "flock"

(* C2: a submission whose body cannot be decoded, or lacks gameState or    *)
(* timestamp, is answered with a 4xx error and writes nothing to the log.  *)
C2_MalformedRejected ==
    \A r \in Requests :
        (pc[r] # "idle" /\ Malformed(request[r].data)) =>
            /\ NothingWrittenBy(r)
            /\ ~Accepted(r)
            /\ pc[r] \in {"received", "done"}
            /\ pc[r] = "done" =>
                   /\ reply[r].status \in 400..499
                   /\ ~reply[r].success
                   /\ reply[r].error # ""
                   /\ log = <<>>

\* a POST with a game state and no timestamp has been answered
C2_Witness ==
    \E r \in Requests :
        /\ pc[r] = "done"
        /\ request[r].method = "POST"
        /\ request[r].data.gameState # None
        /\ request[r].data.timestamp = None
        /\ reply[r].status = 400

(* C3: when the append fails the answer is a 5xx error and the log holds   *)
(* none of the submission's tokens or all of them.                         *)
C3_FailedAppendAllOrNothing ==
    \A r \in Requests :
        AppendFailed(r) =>
            /\ reply[r].status \in 500..599
            /\ (TokensOf(r) = <<>> \/ TokensOf(r) = Data(r))

(* C4: the log is append-only: every step leaves the old content as a      *)
(* prefix of the new content.                                              *)
C4_AppendOnly == [][IsPrefix(log, log')]_vars

\* two submissions have both appended to the log, one of them only in part
C4_Witness ==
    \E r1, r2 \in Requests :
        /\ r1 # r2
        /\ pc[r1] = "done" /\ reply[r1].success
        /\ AppendFailed(r2) /\ written[r2] > 0
        /\ writer[1] = r1

(* C5: a submission that finds the log locked does not wait forever: it    *)
(* eventually leaves flock(), with the lock or with an error.              *)
C5_NoEndlessWait ==
    \A r \in Requests :
        (pc[r] = "flock" /\ lockHolder # 0) ~> (pc[r] # "flock")

(* C6: every answered request either succeeded (200, success true, its     *)
(* whole block appended, logged = the number of lines appended) or failed  *)
(* (4xx/5xx, an error object, nothing of it in the log).                   *)
C6_SuccessOrUntouched ==
    \A r \in Requests :
        pc[r] = "done" =>
            \/ /\ reply[r].status = 200
               /\ reply[r].success
               /\ TokensOf(r) = Data(r)
               /\ reply[r].logged = LineCount(TokensOf(r))
               /\ reply[r].logged > 0
            \/ /\ reply[r].status \in 400..599
               /\ ~reply[r].success
               /\ reply[r].error # ""
               /\ NothingWrittenBy(r)

\* zero checkers, neither die, no cube
NothingDetected(gameState) ==
    /\ gameState.checkers = Some(<<>>)
    /\ isset(gameState.dice) =>
           (~isset(Get(gameState.dice).red) /\ ~isset(Get(gameState.dice).white))
    /\ isset(gameState.cube) => Get(gameState.cube) = NoCube

(* C9: a snapshot with zero checkers, no dice (red and white both absent)   *)
(* and no cube is serialized as exactly two lines: the checkers header     *)
(* with "(0 found)" and the blank line; no DICE header, no DOUBLING CUBE   *)
(* header.                                                                 *)
C9_EmptySnapshotTwoLines ==
    \A r \in Requests :
        (/\ pc[r] = "done"
         /\ reply[r].success
         /\ NothingDetected(Get(request[r].data.gameState))) =>
            TokensOf(r) = <<"[", timestamp[r], "] === CHECKERS === (", "0", " found)\n", "\n">>

(* Rounding of coordinates *)

\* the tokens after which PHP interpolates a rounded coordinate
CoordinateLabels == {"  - Checker at position (x:", ", y:", " pips at (x:", "  - Cube at (x:"}

\* the coordinate texts among tokens, in order
LoggedCoordinates(tokens) ==
    LET at == {i \in DOMAIN tokens : i > 1 /\ tokens[i - 1] \in CoordinateLabels}
        Before(i) == Cardinality({j \in at : j < i})
    IN  [k \in 1..Cardinality(at) |-> tokens[CHOOSE i \in at : Before(i) = k - 1]]

RECURSIVE CheckerCoordinates(_)
CheckerCoordinates(checkers) ==
    IF checkers = <<>> THEN <<>>
    ELSE <<Head(checkers).x, Head(checkers).y>> \o CheckerCoordinates(Tail(checkers))

DieCoordinates(opt) == IF isset(opt) THEN <<Get(opt).x, Get(opt).y>> ELSE <<>>

\* the submitted x and y of every detection that gets a line, in line order
SubmittedCoordinates(gameState) ==
    (IF isset(gameState.checkers) THEN CheckerCoordinates(Get(gameState.checkers)) ELSE <<>>)
    \o (IF isset(gameState.dice)
        THEN DieCoordinates(Get(gameState.dice).red) \o DieCoordinates(Get(gameState.dice).white)
        ELSE <<>>)
    \o (IF isset(gameState.cube) /\ isset(Get(gameState.cube).x)
        THEN <<Get(gameState.cube).x, Get(gameState.cube).y>>
        ELSE <<>>)

\* the integers next to v/10
Neighbours(v) == {v \div 10, (v \div 10) + 1}

\* nearest integer, exact halves toward +infinity
NearestHalfUp(v) == CHOOSE n \in Neighbours(v) : 10 * n - v \in (-4)..5

\* nearest integer, exact halves away from zero
NearestHalfAway(v) ==
    CHOOSE n \in Neighbours(v) :
        /\ Abs(10 * n - v) <= 5
        /\ Abs(10 * n - v) = 5 => Abs(10 * n) > Abs(v)

HalfUpText(v) == ToString(NearestHalfUp(v))
HalfAwayText(v) ==
    IF v < 0 THEN "-" \o ToString(Abs(NearestHalfAway(v))) ELSE ToString(NearestHalfAway(v))

\* every coordinate request r has in the log is the text of its submitted
\* value, rounded half up or half away from zero
CoordinatesLoggedAs(rule) ==
    \A r \in Requests :
        Accepted(r) =>
            LET logged == LoggedCoordinates(TokensOf(r))
                submitted == SubmittedCoordinates(Get(request[r].data.gameState))
            IN  /\ Len(logged) <= Len(submitted)
                /\ (pc[r] = "done" /\ reply[r].success) => Len(logged) = Len(submitted)
                /\ \A k \in 1..Len(logged) :
                       isset(submitted[k]) =>
                           logged[k] = IF rule = "half up"
                                       THEN HalfUpText(Get(submitted[k]))
                                       ELSE HalfAwayText(Get(submitted[k]))

(* C10: every coordinate in the log (checker, die and cube x and y) is the  *)
(* submitted number rounded to the nearest integer, exact halves going up   *)
(* (toward +infinity), for negative numbers and halves too.                *)
C10_RoundHalfUp == CoordinatesLoggedAs("half up")

(* C10 with PHP's rule: every coordinate in the log is the submitted       *)
(* number rounded to the nearest integer, exact halves going away from     *)
(* zero (-2.5 gives -3), and a negative number keeps its sign even when it *)
(* rounds to zero ("-0").                                                  *)
C10_RoundHalfAwayFromZero == CoordinatesLoggedAs("half away from zero")

\* the block of a snapshot with coordinates on exact halves, above and below
\* zero, has been appended
C10_Witness ==
    \E r \in Requests :
        /\ pc[r] = "done"
        /\ reply[r].success
        /\ request[r].data.gameState = Some(HalvesState)
        /\ LoggedCoordinates(TokensOf(r)) = <<"3", "-3", "-0", "1", "-2", "2", "-1", "0">>

---------------------------------------------------------------------------
(* Exact comparisons of doubles.  A double f is compared through the       *)
(* natural number f * 2^scale, for a scale that makes all of them whole.   *)

\* no double compared below is smaller than 2^-14, so its e is above -Scale
Scale == Precision + DigitBits
AsNatural(f) == IF f = Zero THEN <<>> ELSE ShiftLeft(f.m, f.e + Scale)
IntAsNatural(n) == ShiftLeft(Digits(n), Scale)

\* f is a double nearest to n * 2^e (n a natural number of any size)
IsNearest(f, n, e) ==
    LET exact == ShiftLeft(n, e + Scale + 1)          \* twice the exact value
        twice == ShiftLeft(AsNatural(f), 1)           \* twice f
        ulp == ShiftLeft(<<1>>, f.e + Scale)          \* twice half a unit in f's last place
    IN  /\ LessOrEqual(exact, Plus(twice, ulp))
        /\ LessOrEqual(twice, Plus(exact, ulp))

\* f = num / den
IsExactly(f, num, den) == Times(AsNatural(f), den) = IntAsNatural(num)

\* |f - num / den| <= 2^-51 * num / den
IsWithinRounding(f, num, den) ==
    LET a == Times(AsNatural(f), den)
        b == IntAsNatural(num)
    IN  /\ LessOrEqual(ShiftLeft(b, 51), Plus(ShiftLeft(a, 51), b))
        /\ LessOrEqual(ShiftLeft(a, 51), Plus(ShiftLeft(b, 51), b))

(* C7: for a canvas W x H, detectBoardRegions returns 24 points, numbered   *)
(* 1..24 in order; 1-12 are on side 'top' with y = 0.1 * H, 13-24 on side  *)
(* 'bottom' with y = 0.9 * H (the products as doubles).                    *)
C7_TwentyFourPoints ==
    boardRegions # <<>> =>
        /\ Len(boardRegions) = 24
        /\ \A k \in 1..24 :
               /\ boardRegions[k].point = k
               /\ k <= 12 =>
                      /\ boardRegions[k].side = "top"
                      /\ IsNearest(boardRegions[k].y,
                                   Times(Literal01.m, canvas.height), Literal01.e)
               /\ k > 12 =>
                      /\ boardRegions[k].side = "bottom"
                      /\ IsNearest(boardRegions[k].y,
                                   Times(Literal09.m, canvas.height), Literal09.e)

\* the regions of a 1280 x 720 canvas have been computed
C7_Witness ==
    /\ canvas = [width |-> 1280, height |-> 720]
    /\ Len(boardRegions) = 24
    /\ boardRegions[24].side = "bottom"

(* The columns *)
X(k) == AsNatural(boardRegions[k].x)

BottomRepeatsTop == \A i \in 1..12 : boardRegions[i + 12].x = boardRegions[i].x

CentresExact ==
    \A i \in 1..12 : IsExactly(boardRegions[i].x, (2 * i - 1) * canvas.width, 24)

SpacingExact ==
    \A i \in 1..11 : Times(X(i + 1), 12) = Plus(Times(X(i), 12), IntAsNatural(canvas.width))

SymmetryExact ==
    \A i \in 1..12 : Plus(X(i), X(13 - i)) = IntAsNatural(canvas.width)

(* C8: the x-coordinates are the centres of 12 equal columns, exactly and  *)
(* for every W: x of point i is (i - 1/2) * W/12, consecutive points        *)
(* differ by W/12, x of i plus x of 13 - i is W, and point i + 12 has the   *)
(* x of point i.                                                            *)
C8_ColumnCentresExact ==
    boardRegions # <<>> =>
        (CentresExact /\ SpacingExact /\ SymmetryExact /\ BottomRepeatsTop)

(* C8 in double arithmetic: point i + 12 has exactly the x of point i; when W is a    *)
(* multiple of 3 the centres, the spacing and the symmetry are exact; for   *)
(* every W each x is within a relative 2^-51 of (i - 1/2) * W/12.           *)
C8_ColumnCentresRounded ==
    boardRegions # <<>> =>
        /\ BottomRepeatsTop
        /\ canvas.width % 3 = 0 => (CentresExact /\ SpacingExact /\ SymmetryExact)
        /\ \A i \in 1..12 :
               IsWithinRounding(boardRegions[i].x, (2 * i - 1) * canvas.width, 24)

\* the regions of a 1280 pixels wide canvas: no centre, spacing or symmetry is
\* exact throughout
C8_Witness ==
    /\ canvas.width = 1280
    /\ Len(boardRegions) = 24
    /\ ~CentresExact
    /\ ~SpacingExact

---------------------------------------------------------------------------
\* request r has been answered with success
Succeeded(r) == pc[r] = "done" /\ reply[r].success

(* C11: serialization is deterministic in its inputs: two submissions with *)
(* the same snapshot and the same timestamp append identical blocks,       *)
(* whenever they are processed.                                            *)
C11_SameInputSameBlock ==
    \A r1, r2 \in Requests :
        (Succeeded(r1) /\ Succeeded(r2) /\ request[r1].data = request[r2].data) =>
            TokensOf(r1) = TokensOf(r2)

\* the positions of token label in tokens
Positions(tokens, label) == {i \in DOMAIN tokens : tokens[i] = label}

\* the text a coordinate is logged as; a missing one is logged as 0
CoordinateText(opt) == IF isset(opt) THEN HalfAwayText(Get(opt)) ELSE "0"

\* the die of that colour is in the snapshot, without its pip count
DieWithoutPips(gameState, colour) ==
    /\ isset(gameState.dice)
    /\ isset(Get(gameState.dice)[colour])
    /\ ~isset(Get(Get(gameState.dice)[colour]).pips)

\* the cube is in the snapshot with an x, without its value
CubeWithoutValue(gameState) ==
    /\ isset(gameState.cube)
    /\ isset(Get(gameState.cube).x)
    /\ ~isset(Get(gameState.cube).value)

\* tokens has exactly one line for that die, with ? for the pips
DieLineWithPlaceholder(tokens, label, die) ==
    /\ Cardinality(Positions(tokens, label)) = 1
    /\ \A i \in Positions(tokens, label) :
           /\ i + 6 <= Len(tokens)
           /\ SubSeq(tokens, i, i + 6) =
                  <<label, "?", " pips at (x:", CoordinateText(die.x), ", y:",
                    CoordinateText(die.y), ")\n">>

\* tokens has exactly one cube line, with ? for the value
CubeLineWithPlaceholder(tokens, cube) ==
    /\ Cardinality(Positions(tokens, "  - Cube at (x:")) = 1
    /\ \A i \in Positions(tokens, "  - Cube at (x:") :
           /\ i + 6 <= Len(tokens)
           /\ SubSeq(tokens, i, i + 6) =
                  <<"  - Cube at (x:", CoordinateText(cube.x), ", y:", CoordinateText(cube.y),
                    "), value: ", "?", "\n">>

SomethingMissing(gameState) ==
    \/ DieWithoutPips(gameState, "red")
    \/ DieWithoutPips(gameState, "white")
    \/ CubeWithoutValue(gameState)

(* C12: a die without a pip count, or a cube without a value, does not     *)
(* make the request fail: the body is accepted, the only error it can end  *)
(* in is a failed append, and on success the detail line is in the log     *)
(* with ? for the missing value, inside a complete block.                  *)
C12_PlaceholderForMissing ==
    \A r \in Requests :
        (/\ pc[r] \notin {"idle", "received"}
         /\ request[r].method = "POST"
         /\ ~Malformed(request[r].data)
         /\ SomethingMissing(Get(request[r].data.gameState))) =>
            LET gameState == Get(request[r].data.gameState)
                tokens == TokensOf(r)
            IN  /\ Accepted(r)
                /\ (pc[r] = "done" /\ ~reply[r].success) =>
                       (reply[r].status = 500 /\ Remaining(r) > 0)
                /\ (pc[r] = "done" /\ Remaining(r) = 0) => Succeeded(r)
                /\ Succeeded(r) =>
                       /\ tokens = Data(r)
                       /\ tokens[Len(tokens)] = "\n"
                       /\ DieWithoutPips(gameState, "red") =>
                              DieLineWithPlaceholder(tokens, "  - Red Die: ",
                                                     Get(Get(gameState.dice).red))
                       /\ DieWithoutPips(gameState, "white") =>
                              DieLineWithPlaceholder(tokens, "  - White Die: ",
                                                     Get(Get(gameState.dice).white))
                       /\ CubeWithoutValue(gameState) =>
                              CubeLineWithPlaceholder(tokens, Get(gameState.cube))

\* a block with a white die without pips and a cube without value is in the log
C12_Witness ==
    \E r \in Requests :
        /\ Succeeded(r)
        /\ DieWithoutPips(Get(request[r].data.gameState), "white")
        /\ CubeWithoutValue(Get(request[r].data.gameState))
        /\ Cardinality(Positions(TokensOf(r), "?")) = 2

---------------------------------------------------------------------------
(* The lines of a block *)

RECURSIVE SplitLines(_, _)
\* tokens cut after every token that ends a line; current is the line begun
SplitLines(tokens, current) ==
    IF tokens = <<>> THEN (IF current = <<>> THEN <<>> ELSE <<current>>)
    ELSE IF Head(tokens) \in LineEnds
         THEN <<Append(current, Head(tokens))>> \o SplitLines(Tail(tokens), <<>>)
         ELSE SplitLines(Tail(tokens), Append(current, Head(tokens)))

Lines(tokens) == SplitLines(tokens, <<>>)

HeaderTitles == <<"] === CHECKERS === (", "] === DICE ===\n", "] === DOUBLING CUBE ===\n">>
DetailLabels == <<{"  - Checker at position (x:"}, {"  - Red Die: ", "  - White Die: "},
                  {"  - Cube at (x:"}>>

IsBlank(line) == line = <<"\n">>

\* "[<timestamp>] === ... ===": the line of section k (1 checkers, 2 dice, 3 cube)
IsHeader(line, k) == Len(line) >= 3 /\ line[1] = "[" /\ line[3] = HeaderTitles[k]

\* an indented line of section k, without "[" and without the timestamp ts
IsDetail(line, k, ts) ==
    /\ line[1] \in DetailLabels[k]
    /\ \A i \in DOMAIN line : line[i] # "[" /\ line[i] # ts

\* the section a line belongs to, 4 for the blank line, 0 for no line of a block
Section(line, ts) ==
    IF IsBlank(line) THEN 4
    ELSE IF \E k \in 1..3 : IsHeader(line, k) \/ IsDetail(line, k, ts)
         THEN CHOOSE k \in 1..3 : IsHeader(line, k) \/ IsDetail(line, k, ts)
         ELSE 0

\* lines is a block stamped ts
WellFormedBlock(lines, ts) ==
    /\ lines # <<>>
    /\ \A i \in DOMAIN lines : Section(lines[i], ts) # 0
    /\ \A i \in DOMAIN lines : IsBlank(lines[i]) <=> i = Len(lines)
    /\ \A i, j \in DOMAIN lines : i < j => Section(lines[i], ts) <= Section(lines[j], ts)
    /\ \A k \in 1..3 :
           /\ Cardinality({i \in DOMAIN lines : IsHeader(lines[i], k)}) <= 1
           /\ \A i \in DOMAIN lines :
                  IsHeader(lines[i], k) => lines[i][2] = ts
           /\ \A i \in DOMAIN lines :
                  IsDetail(lines[i], k, ts) => \E j \in 1..(i - 1) : IsHeader(lines[j], k)

(* C13: the block of an accepted submission has its sections in the order  *)
(* checkers, dice, doubling cube and ends with its only blank line; every  *)
(* header line starts with [<timestamp>], all with the same timestamp;     *)
(* every detail line is indented and has no timestamp.                     *)
C13_BlockStructure ==
    \A r \in Requests :
        Succeeded(r) => WellFormedBlock(Lines(TokensOf(r)), reply[r].timestamp)

\* the block of a snapshot with checkers, dice and a cube is in the log
C13_Witness ==
    \E r \in Requests :
        /\ Succeeded(r)
        /\ request[r].data.gameState = Some(FullGameState)
        /\ Len(Lines(TokensOf(r))) = 9
        /\ \A k \in 1..3 : \E i \in 1..9 : IsHeader(Lines(TokensOf(r))[i], k)

\* how many checker lines follow line 1 without a gap
CheckerLinesFollowing(lines, ts) ==
    Cardinality({i \in 2..Len(lines) : \A j \in 2..i : IsDetail(lines[j], 1, ts)})

\* how many checker lines there are at all
CheckerLinesInAll(lines, ts) ==
    Cardinality({i \in DOMAIN lines : IsDetail(lines[i], 1, ts)})

CheckerLine(checker) ==
    <<"  - Checker at position (x:", CoordinateText(checker.x), ", y:",
      CoordinateText(checker.y), ")\n">>

(* C14: in every appended block the n of "=== CHECKERS === (n found)" is   *)
(* the number of checker lines that immediately follow the header; there   *)
(* is one checker line per submitted checker, in the order submitted.      *)
C14_CheckerCount ==
    \A r \in Requests :
        Succeeded(r) =>
            LET gameState == Get(request[r].data.gameState)
                ts == reply[r].timestamp
                lines == Lines(TokensOf(r))
                following == CheckerLinesFollowing(lines, ts)
            IN  /\ CheckerLinesInAll(lines, ts) = following
                /\ IsHeader(lines[1], 1) <=> isset(gameState.checkers)
                /\ ~isset(gameState.checkers) => following = 0
                /\ isset(gameState.checkers) =>
                       LET checkers == Get(gameState.checkers)
                       IN  /\ lines[1][4] = ToString(following)
                           /\ following = Len(checkers)
                           /\ \A i \in 1..Len(checkers) :
                                  lines[i + 1] = CheckerLine(checkers[i])

\* a block with two different checker lines is in the log
C14_Witness ==
    \E r \in Requests :
        /\ Succeeded(r)
        /\ CheckerLinesFollowing(Lines(TokensOf(r)), reply[r].timestamp) = 2
        /\ Lines(TokensOf(r))[2] # Lines(TokensOf(r))[3]
        /\ Lines(TokensOf(r))[1][4] = "2"

\* the snapshot has a cube with both coordinates defined
CubeWithCoordinates(gameState) ==
    /\ isset(gameState.cube)
    /\ isset(Get(gameState.cube).x)
    /\ isset(Get(gameState.cube).y)

\* lines has the cube section: its header, then its one cube line
HasCubeSection(lines, ts) ==
    \E i \in DOMAIN lines :
        /\ IsHeader(lines[i], 3)
        /\ i < Len(lines)
        /\ IsDetail(lines[i + 1], 3, ts)

\* lines has neither a cube header nor a cube line
HasNothingOfCube(lines, ts) ==
    \A i \in DOMAIN lines : ~IsHeader(lines[i], 3) /\ ~IsDetail(lines[i], 3, ts)

(* C15: the DOUBLING CUBE section (header and cube line) is written if the *)
(* snapshot has a cube with x and y both defined, and nothing of it is     *)
(* written otherwise: no cube line with an invented coordinate.            *)
C15_CubeSectionIffCoordinates ==
    \A r \in Requests :
        Succeeded(r) =>
            LET lines == Lines(TokensOf(r))
                ts == reply[r].timestamp
            IN  IF CubeWithCoordinates(Get(request[r].data.gameState))
                THEN HasCubeSection(lines, ts)
                ELSE HasNothingOfCube(lines, ts)

---------------------------------------------------------------------------
\* the game state detect() builds from frame f at time t, whatever the dice show
Rebuilt(state, f, cv, t) ==
    /\ state.checkers = detectCheckers(f, cv)
    /\ \E pips \in PipsFor(f, cv) : state.dice = detectDice(f, cv, pips)
    /\ state.cube = detectDoublingCube(f)
    /\ state.boardRegions = Some(RegionsOf(cv))
    /\ state.timestamp = Some(toISOString(t))

---------------------------------------------------------------------------
(* C16: once stopDetection has run, and until Start is clicked again, no   *)
(* detection cycle executes and no game state is submitted: no call of     *)
(* detect() by the timer's handler, no new POST.                           *)
C16_NothingRunsAfterStop ==
    [][stopped => (outbox' = outbox /\ returned' = returned /\ outcome' = outcome)]_vars

(* C17: at most one detection timer is active, and detectionInterval       *)
(* refers to it.                                                           *)
C17_OneTimer ==
    /\ Cardinality(timers) <= 1
    /\ timers = IF detectionInterval = 0 THEN {} ELSE {detectionInterval}

\* a call of startDetection waits for the camera or for loadedmetadata
StartPending == \E k \in 1..MaxStarts : starts[k] \in {"getUserMedia", "loadedmetadata"}

(* C18: after stopDetection has run, with no Start pending, no camera      *)
(* track of any stream getUserMedia returned is still live.                *)
C18_NoLiveTrackAfterStop ==
    (stopped /\ ~StartPending) => live = {}

---------------------------------------------------------------------------
(* C20: for every game state detect() returns and the page submits, the    *)
(* script writes a DOUBLING CUBE section exactly when the page counted the *)
(* cube as detected; the no-cube value gets nothing of a cube section.     *)
C20_CubeAgreement ==
    \A r \in Requests :
        Succeeded(r) =>
            LET lines == Lines(TokensOf(r))
            IN  IF shown[r] THEN HasCubeSection(lines, reply[r].timestamp)
                            ELSE HasNothingOfCube(lines, reply[r].timestamp)

\* the block of a state with a cube, counted by the page, is in the log
C20_Witness ==
    \E r \in Requests :
        /\ Succeeded(r)
        /\ shown[r]
        /\ Get(request[r].data.gameState).cube # Some(NoCube)
        /\ HasCubeSection(Lines(TokensOf(r)), reply[r].timestamp)

\* the block of a state with the no-cube value is in the log
C20_NoCubeLogged ==
    \E r \in Requests :
        /\ Succeeded(r)
        /\ ~shown[r]
        /\ Get(request[r].data.gameState).cube = Some(NoCube)

---------------------------------------------------------------------------
\* contour c passes the filter of the loop
Qualifies(c) ==
    /\ c.area > 1000 /\ c.area < 10000
    /\ c.vertices >= 4 /\ c.vertices <= 6
    /\ c.m00 # 0

\* the contours of cs for which the loop calls cv.approxPolyDP, if nothing throws
ApproxPolyDPCalls(cs) == {i \in DOMAIN cs : cs[i].area > 1000 /\ cs[i].area < 10000}

\* those for which it calls cv.moments: of the right area and shape, and
\* larger than every contour before them that passed the filter
MomentsCalls(cs) ==
    {i \in DOMAIN cs :
        /\ cs[i].area > 1000 /\ cs[i].area < 10000
        /\ cs[i].vertices >= 4 /\ cs[i].vertices <= 6
        /\ \A j \in 1..(i - 1) : Qualifies(cs[j]) => cs[j].area < cs[i].area}

\* a step of detectDoublingCube throws on frame f
CubeStepThrows(f) ==
    \/ f.fault = "Canny"
    \/ f.fault = "approxPolyDP" /\ f.at <= Cardinality(ApproxPolyDPCalls(f.contours))
    \/ f.fault = "moments" /\ f.at <= Cardinality(MomentsCalls(f.contours))

\* the object returned for contour c: its centroid, its area, the value 1
CubeOf(c) == FoundCube(Centroid(c.m10, c.m00), Centroid(c.m01, c.m00), c.area, 1)

(* C21: detectDoublingCube returns the candidate of largest area among the *)
(* contours whose area is strictly between 1000 and 10000, whose polygon   *)
(* approximation has 4 to 6 vertices and whose zeroth moment is non-zero,  *)
(* with x and y the contour's centroid and value 1; when no contour        *)
(* qualifies, or any step throws, it returns {position: null, value: null}.*)
C21_LargestCandidateOrNothing ==
    (outcome = "completed" /\ returned # None) =>
        LET cs == frame.contours
            candidates == {i \in DOMAIN cs : Qualifies(cs[i])}
        IN  IF CubeStepThrows(frame) \/ candidates = {}
            THEN Get(returned) = NoCubeFound
            ELSE \E i \in candidates :
                     /\ \A j \in candidates : cs[j].area <= cs[i].area
                     /\ Get(returned) = CubeOf(cs[i])

\* two candidates, the larger found first: it is the one returned
C21_Witness ==
    /\ outcome = "completed"
    /\ ~CubeStepThrows(frame)
    /\ Len(frame.contours) = 2
    /\ Qualifies(frame.contours[1]) /\ Qualifies(frame.contours[2])
    /\ frame.contours[1].area > frame.contours[2].area
    /\ returned = Some(CubeOf(frame.contours[1]))

\* cv.moments has thrown on the second contour after the first was a
\* candidate: nothing of the first is returned
C21_ThrownAfterCandidate ==
    /\ outcome = "completed"
    /\ frame.fault = "moments" /\ frame.at = 2
    /\ Len(frame.contours) = 2
    /\ Qualifies(frame.contours[1])
    /\ CubeStepThrows(frame)
    /\ returned = Some(NoCubeFound)

\* a larger contour with a zero m00 is passed over for a smaller candidate
C21_DegenerateSkipped ==
    /\ outcome = "completed"
    /\ \E i, j \in DOMAIN frame.contours :
           /\ frame.contours[i].m00 = 0
           /\ frame.contours[i].vertices = 4
           /\ frame.contours[i].area > frame.contours[j].area
           /\ Qualifies(frame.contours[j])
           /\ returned = Some(CubeOf(frame.contours[j]))

===========================================================================
